---- MODULE Spec2Model ----
(***************************************************************************)
(* A model of mcp_knowledge_service.py: the MQTT message handler           *)
(* (on_message), the Dify workflow dispatcher (trigger_dify_workflow), the *)
(* record store (record_combined, save_log_file) and the two TTL caches    *)
(* (_inflight_workflows, _recent_success_hashes).                          *)
(*                                                                         *)
(* Threads: one MQTT network thread runs on_message for one message at a   *)
(* time, each message in one step; every sensor message (and every empty   *)
(* control message) starts a dispatcher thread, whose steps are its        *)
(* stretches between two accesses to shared state.                         *)
(***************************************************************************)
EXTENDS Integers, Sequences, FiniteSets, TLC

----------------------------------------------------------------------------
(* Bounds of the model *)

\* The clock advances in ticks of TimeUnit seconds: MaxTicks times at most when
\* only dispatches are followed, MaxControlTicks times when control messages
\* are recorded too.
TimeUnit == 150
MaxTicks == 3
MaxControlTicks == 1
\* time.time() when the process starts (seconds; positive as any real epoch time).
StartTime == 600
\* Dispatcher threads started in one run.
MaxDispatch == 2
\* Control messages recorded with source "mqtt" in one run.
MaxMqttRecords == 1
\* Entries of a short log file loaded at the start.
MaxLoaded == 2
\* A long log file has MAX_HISTORY entries, LongSlack more or fewer.
LongSlack == 1
\* Ticks of the clock while saves are followed.
MaxPersistTicks == 2
\* Times the process is started again in one run.
MaxRestarts == 1
\* Keys of a sensor argument of _make_record_hash.
MaxHashKeys == 2
\* A finer grain of the clock, in seconds, that meets both TTLs exactly.
BoundaryUnit == 60
\* Ticks of the finer clock in one run.
MaxBoundaryTicks == 6
\* Dispatches that pass their guard in one run where ended threads are forgotten.
MaxPasses == 3

----------------------------------------------------------------------------
(* Program constants *)

DUPLICATE_WINDOW_SECONDS == 120
DIFY_INFLIGHT_TTL == 300
DIFY_EMPTY_RETRIES == 3
MAX_HISTORY == 1000
MAX_BACKOFF_SECONDS == 30
RETENTION_DAYS == 7
BEIJING_UTC_OFFSET_HOURS == 8

----------------------------------------------------------------------------
(* JSON values.  A scalar is its type and its text; a payload is an object *)
(* with its items in insertion order (a Python dict), or null (None).      *)

Num(t) == [type |-> "num", text |-> t]
Str(t) == [type |-> "str", text |-> t]
Obj(items) == [kind |-> "object", items |-> items]
\* A value that is itself a mapping, and one json.dumps cannot serialise
Nested(items) == [type |-> "obj", text |-> "", items |-> items]
Bytes == [type |-> "bytes", text |-> ""]
None == [kind |-> "null", items |-> <<>>]
EmptyDict == Obj(<<>>)

\* bool(x) of a payload: None and the empty dict are falsy.
Truthy(x) == x.kind = "object" /\ Len(x.items) > 0

\* Python's `a or b`.
PyOr(a, b) == IF Truthy(a) THEN a ELSE b

\* `not v` of a scalar: the empty string and the number 0.
FalsyScalar(v) == (v.type = "str" /\ v.text = "") \/ (v.type = "num" /\ v.text = "0")

\* `v != 0` of a scalar.
NotEqualZero(v) == ~(v.type = "num" /\ v.text = "0")

\* `isinstance(v, str) and v.strip() == ""`.
IsBlankString(v) == v.type = "str" /\ v.text \in {"", " "}

Keys(p) == [i \in 1..Len(p.items) |-> p.items[i][1]]
Values(p) == {p.items[i][2] : i \in 1..Len(p.items)}

\* The order json.dumps(sort_keys=True) gives the keys that occur.
KeyOrder == <<"control", "h", "raw", "sensor", "t", "valve", "x", "y">>
KeyRank(k) == CHOOSE i \in 1..Len(KeyOrder) : KeyOrder[i] = k

\* The items sorted by key, at every level
RECURSIVE SortedItems(_)
SortedItems(items) ==
    SortSeq([i \in 1..Len(items) |->
                <<items[i][1],
                  IF items[i][2].type = "obj"
                  THEN Nested(SortedItems(items[i][2].items))
                  ELSE items[i][2]>>],
            LAMBDA a, b : KeyRank(a[1]) < KeyRank(b[1]))

\* A serialisation that sorts the keys of the outer mapping only
JsonDumpsSortedOuter(x) ==
    IF x.kind = "object"
    THEN Obj(SortSeq(x.items, LAMBDA a, b : KeyRank(a[1]) < KeyRank(b[1])))
    ELSE x

\* json.dumps(x, sort_keys=True): the items sorted by key.
JsonDumpsSorted(x) ==
    IF x.kind = "object" THEN Obj(SortedItems(x.items)) ELSE x

\* json.dumps does not raise TypeError
RECURSIVE SerialisableItems(_)
SerialisableItems(items) ==
    \A i \in 1..Len(items) :
        /\ items[i][2].type # "bytes"
        /\ items[i][2].type = "obj" => SerialisableItems(items[i][2].items)

Serialisable(x) == SerialisableItems(x.items)

\* An exception that leaves _make_record_hash
Raised == [raised |-> TRUE]

\* The MD5 digest of json.dumps(control_data, sort_keys=True) alone,
\* represented by that serialisation
HashOfControlAlone(control_data) == [control_alone |-> JsonDumpsSorted(control_data)]

\* A variant that answers an exception with the digest of nothing
MakeRecordHashOrZero(sensor_data, control_data) ==
    IF Serialisable(sensor_data) /\ Serialisable(control_data)
    THEN [control |-> JsonDumpsSorted(control_data), sensor |-> JsonDumpsSorted(sensor_data)]
    ELSE [zero |-> TRUE]

\* _make_record_hash: the MD5 digest of the sorted serialisation of
\* {"sensor": ..., "control": ...}, represented by that serialisation; of
\* control_data alone when json.dumps raises; and when that raises too, the
\* exception.
MakeRecordHash(sensor_data, control_data) ==
    IF Serialisable(sensor_data) /\ Serialisable(control_data)
    THEN [control |-> JsonDumpsSorted(control_data), sensor |-> JsonDumpsSorted(sensor_data)]
    ELSE IF Serialisable(control_data)
         THEN HashOfControlAlone(control_data)
         ELSE Raised

----------------------------------------------------------------------------
(* Messages of the bus, as their text *)

T_t30 == "{\"t\":30}"
T_t30_h5 == "{\"t\":30,\"h\":5}"
T_h5_t30 == "{\"h\":5,\"t\":30}"
T_empty == "{}"
T_null == "null"
T_valve_open == "{\"valve\":\"open\"}"
T_valve_zero == "{\"valve\":0}"
T_valve_blank == "{\"valve\":\"\"}"
T_space == " "

S_t30 == Obj(<< <<"t", Num("30")>> >>)
S_t30_h5 == Obj(<< <<"t", Num("30")>>, <<"h", Num("5")>> >>)
S_h5_t30 == Obj(<< <<"h", Num("5")>>, <<"t", Num("30")>> >>)
C_valve_open == Obj(<< <<"valve", Str("open")>> >>)
C_valve_zero == Obj(<< <<"valve", Num("0")>> >>)
C_valve_blank == Obj(<< <<"valve", Str("")>> >>)

SensorTexts == {T_t30_h5, T_h5_t30, T_empty}
ControlTexts == {T_valve_open, T_valve_zero, T_valve_blank, T_empty, T_null, T_space}

\* The texts json.loads accepts.
IsJson(text) ==
    text \in {T_t30, T_t30_h5, T_h5_t30, T_empty, T_null,
              T_valve_open, T_valve_zero, T_valve_blank}

JsonLoads(text) ==
    CASE text = T_t30 -> S_t30
      [] text = T_t30_h5 -> S_t30_h5
      [] text = T_h5_t30 -> S_h5_t30
      [] text = T_empty -> EmptyDict
      [] text = T_null -> None
      [] text = T_valve_open -> C_valve_open
      [] text = T_valve_zero -> C_valve_zero
      [] text = T_valve_blank -> C_valve_blank

\* A variant that drops a text that is not JSON
DecodePayloadOrNone(text) == IF IsJson(text) THEN JsonLoads(text) ELSE None

\* on_message: json.loads, and {"raw": text} for a text that is not JSON.
DecodePayload(text) ==
    IF IsJson(text) THEN JsonLoads(text) ELSE Obj(<< <<"raw", Str(text)>> >>)

\* A variant without the rule of the sole raw field
IsEmptyControlByValues(p) ==
    \/ ~Truthy(p)
    \/ /\ p.kind = "object"
       /\ \A v \in Values(p) : FalsyScalar(v) /\ NotEqualZero(v)

\* on_message._is_empty_control
IsEmptyControl(p) ==
    \/ ~Truthy(p)
    \/ /\ p.kind = "object"
       /\ \/ \A v \in Values(p) : FalsyScalar(v) /\ NotEqualZero(v)
          \/ /\ Keys(p) = <<"raw">>
             /\ IsBlankString(p.items[1][2])

----------------------------------------------------------------------------
(* Responses of the workflow call *)

\* The body of a 200 response: result["outputs"] (a dict or absent) with its
\* "output" and "control", and the top-level "control" and "output".
Body(has_outputs, oo, oc, c, o) ==
    [has_outputs |-> has_outputs, outputs_output |-> oo, outputs_control |-> oc,
     control |-> c, output |-> o]

Bodies ==
    { Body(TRUE, C_valve_open, None, None, None),
      Body(TRUE, EmptyDict, C_valve_open, None, None),
      Body(FALSE, None, None, C_valve_open, None),
      Body(FALSE, None, None, EmptyDict, C_valve_open),
      Body(TRUE, None, None, None, None),
      Body(TRUE, None, None, C_valve_open, None),
      Body(FALSE, None, None, None, None) }

\* trigger_dify_workflow: the control output taken from the response.
ExtractControl(result) ==
    IF result.has_outputs
    THEN PyOr(result.outputs_output, result.outputs_control)
    ELSE PyOr(result.control, result.output)

ErrorStatuses == {429, 500}

----------------------------------------------------------------------------
(* Time and timestamps *)

\* datetime.now(beijing_tz).isoformat(): the wall-clock reading and its offset.
IsoFormat(t) ==
    [kind |-> "aware", wall |-> t + BEIJING_UTC_OFFSET_HOURS * 3600,
     utcoffset |-> BEIJING_UTC_OFFSET_HOURS * 3600]

\* The other "timestamp" values an entry loaded from the file may have: an
\* ISO text without an offset, a text that fromisoformat rejects, and a
\* missing or falsy one (entry.get("timestamp") is None or "").
NaiveTimestamp(wall) == [kind |-> "naive", wall |-> wall, utcoffset |-> 0]
UnparsableTimestamp == [kind |-> "unparsable", wall |-> 0, utcoffset |-> 0]
NoTimestamp == [kind |-> "absent", wall |-> 0, utcoffset |-> 0]

\* datetime.fromisoformat(ts).astimezone(timezone.utc), in seconds; a text
\* without an offset is taken as UTC.
FromIsoFormatUtc(ts) == ts.wall - ts.utcoffset

----------------------------------------------------------------------------
(* The caches *)

\* dict.pop(h, None)
Pop(f, h) == [k \in DOMAIN f \ {h} |-> f[k]]

\* f[h] = t
Put(f, h, t) == (h :> t) @@ f

\* A variant that takes an entry of age exactly the TTL as expired too
InflightExpiredAtTtl(ts, t) == t - ts >= DIFY_INFLIGHT_TTL

\* trigger_dify_workflow: an in-flight entry of age above the TTL is expired.
InflightExpired(ts, t) == t - ts > DIFY_INFLIGHT_TTL

\* A variant that deletes nothing
SweepInflightNone(f, t) == f

\* trigger_dify_workflow: the expired entries are deleted before the check.
SweepInflight(f, t) == [k \in {x \in DOMAIN f : ~InflightExpired(f[x], t)} |-> f[k]]

\* _cleanup_recent_hashes
CleanupRecentHashes(f, t) ==
    [k \in {x \in DOMAIN f : ~(t - f[x] > DUPLICATE_WINDOW_SECONDS)} |-> f[k]]

\* A variant that takes an entry of age exactly the window as expired
RecentLiveBelowWindow(f, h, t) ==
    /\ h \in DOMAIN f
    /\ f[h] # 0
    /\ t - f[h] < DUPLICATE_WINDOW_SECONDS

\* on_message: `ts and (time.time() - ts) <= DUPLICATE_WINDOW_SECONDS`
RecentLive(f, h, t) ==
    /\ h \in DOMAIN f
    /\ f[h] # 0
    /\ t - f[h] <= DUPLICATE_WINDOW_SECONDS

\* The in-flight cache after each way a dispatch ends.
\* A variant that keeps the entry after a status other than 200
InflightKeptAfterHttpError(f, h) == f
InflightAfterHttpError(f, h) == Pop(f, h)
InflightAfterSuccess(f, h) == Pop(f, h)
InflightAfterEmptyExhausted(f, h) == Pop(f, h)
InflightAfterReadTimeout(f, h) == f
\* A variant that keeps the entry after a connection error
InflightKeptAfterConnectionError(f, h) == f
InflightAfterConnectionError(f, h) == Pop(f, h)
InflightAfterException(f, h) == Pop(f, h)

\* A variant that stops one retry earlier
RetryAllowedBelow(attempt) == attempt < DIFY_EMPTY_RETRIES

\* trigger_dify_workflow: `empty_attempt <= max_empty_retries`
RetryAllowed(attempt) == attempt <= DIFY_EMPTY_RETRIES

\* 2 ** n
RECURSIVE Pow2(_)
Pow2(n) == IF n = 0 THEN 1 ELSE 2 * Pow2(n - 1)

\* trigger_dify_workflow: min(2 ** empty_attempt, 30)
Backoff(attempt) ==
    IF Pow2(attempt) < MAX_BACKOFF_SECONDS THEN Pow2(attempt) ELSE MAX_BACKOFF_SECONDS

----------------------------------------------------------------------------
(* The record store *)

LogEntry(t, sensor_data, control_data, source) ==
    [timestamp |-> IsoFormat(t), sensor_data |-> sensor_data,
     control_command |-> control_data, source |-> source]

\* A cut that keeps the first n entries
FirstN(s, n) == IF Len(s) <= n THEN s ELSE SubSeq(s, 1, n)

\* filtered_log[-max_h:]
LastN(s, n) == IF Len(s) <= n THEN s ELSE SubSeq(s, Len(s) - n + 1, Len(s))

\* A loop that drops the entries whose timestamp does not parse
RetainedParsedOnly(e, seven_days_ago) ==
    CASE e.timestamp.kind = "absent" -> FALSE
      [] e.timestamp.kind = "unparsable" -> FALSE
      [] OTHER -> FromIsoFormatUtc(e.timestamp) >= seven_days_ago

\* save_log_file, the loop: an entry without a timestamp is skipped, one whose
\* timestamp does not parse is kept, any other is kept when it is not older
\* than seven_days_ago.
Retained(e, seven_days_ago) ==
    CASE e.timestamp.kind = "absent" -> FALSE
      [] e.timestamp.kind = "unparsable" -> TRUE
      [] OTHER -> FromIsoFormatUtc(e.timestamp) >= seven_days_ago

\* save_log_file: filtered_log, for a save that starts at time t
FilteredLog(log, t) ==
    SelectSeq(log, LAMBDA e : Retained(e, t - RETENTION_DAYS * 86400))

\* save_log_file: max_h = MAX_HISTORY if MAX_HISTORY else 1000
MaxH == IF MAX_HISTORY # 0 THEN MAX_HISTORY ELSE 1000

\* save_log_file: to_write
ToWrite(log, t) == LastN(FilteredLog(log, t), MaxH)

\* save_log_file, when nothing fails and no other save runs: the file holds to_write
SaveLogFile(log, t) == [exists |-> TRUE, entries |-> ToWrite(log, t)]

\* A variant that looks at the control data only
RecordSkippedWithoutControl(sensor_data, control_data) ==
    control_data = None

\* record_combined: nothing is recorded when either part is None.
RecordSkipped(sensor_data, control_data) ==
    sensor_data = None \/ control_data = None

----------------------------------------------------------------------------
(* State *)

VARIABLES
    now,                    \* time.time()
    latest_sensor_data,     \* the payload of the last sensor message, or None
    control_log,            \* the records in memory
    log_file,               \* LOG_FILE on disk
    recent_success_hashes,  \* _recent_success_hashes: hash -> time
    inflight_workflows,     \* _inflight_workflows: hash -> time
    pc,                     \* where each dispatcher thread is
    sensor_arg,             \* trigger_dify_workflow's sensor_data
    empty_attempt,          \* trigger_dify_workflow's empty_attempt
    control_output,         \* trigger_dify_workflow's control_output
    backoff,                \* trigger_dify_workflow's backoff, the last sleep
    inserted_at,            \* trigger_dify_workflow's now, the time of its marker
    calls,                  \* history: requests.post calls the thread has made
    arrived_at,             \* history: when the thread's message arrived, until its guard
    started_by,             \* history: the topic of that message, until its guard
    call_arrivals,          \* history: hash -> arrivals of the dispatches that made a call
    timeout_held,           \* history: hash -> time of the marker a read timeout left
    tmp_file,               \* LOG_FILE + ".tmp" on disk
    files_created,          \* files created on disk so far
    saving,                 \* where each thread is in save_log_file, and its variables
    restarts,               \* times the process has been started again
    save_failed,            \* history: positions in control_log of the entries whose save
                            \* failed, until the save of a later entry succeeds
    hash_in,                \* the arguments of a call of _make_record_hash
    hash_out                \* the caller of _make_record_hash and what it got, and
                            \* history: the arguments of this call and of the one before

vars == <<now, latest_sensor_data, control_log, log_file, recent_success_hashes,
          inflight_workflows, pc, sensor_arg, empty_attempt, control_output,
          backoff, inserted_at, calls, arrived_at, started_by, call_arrivals,
          timeout_held, tmp_file, files_created, saving, restarts, save_failed,
          hash_in, hash_out>>

Dispatchers == 1..MaxDispatch

\* The threads that run record_combined: the MQTT network thread, and the
\* dispatchers
MqttThread == 0
Threads == {MqttThread} \cup Dispatchers

\* A thread outside save_log_file
NotSaving ==
    [pc |-> "idle", start |-> 0, to_write |-> <<>>, fd |-> 0, appended |-> 0]

\* No file at a path
NoFile == [exists |-> FALSE, id |-> 0, chunks |-> <<>>]

store_vars == <<control_log, log_file>>
cache_vars == <<recent_success_hashes, inflight_workflows>>
local_vars == <<sensor_arg, empty_attempt, control_output, backoff, inserted_at,
                calls, arrived_at, started_by>>
history_vars == <<call_arrivals, timeout_held>>
thread_vars == <<pc, local_vars, history_vars>>
save_vars == <<tmp_file, files_created, saving, restarts, save_failed>>
hash_vars == <<hash_in, hash_out>>

\* record_hash of a dispatcher: _make_record_hash(sensor_data, {})
RecordHash(d) == MakeRecordHash(sensor_arg[d], EmptyDict)

\* No call of _make_record_hash is looked at
NoHashInput == [a |-> None, b |-> None]
NoHashCall ==
    [caller |-> "none", result |-> Raised, continues |-> FALSE,
     of |-> NoHashInput, before |-> NoHashInput, caller_before |-> "none"]

\* The process as it starts, the records and the call looked at apart
StartOfProcess ==
    /\ now = StartTime
    /\ latest_sensor_data = None
    /\ recent_success_hashes = <<>>
    /\ inflight_workflows = <<>>
    /\ pc = [d \in Dispatchers |-> "unstarted"]
    /\ sensor_arg = [d \in Dispatchers |-> None]
    /\ empty_attempt = [d \in Dispatchers |-> 0]
    /\ control_output = [d \in Dispatchers |-> None]
    /\ backoff = [d \in Dispatchers |-> 0]
    /\ calls = [d \in Dispatchers |-> 0]
    /\ inserted_at = [d \in Dispatchers |-> 0]
    /\ arrived_at = [d \in Dispatchers |-> 0]
    /\ started_by = [d \in Dispatchers |-> "none"]
    /\ call_arrivals = <<>>
    /\ timeout_held = <<>>
    /\ tmp_file = NoFile
    /\ files_created = 0
    /\ saving = [th \in Threads |-> NotSaving]
    /\ restarts = 0
    /\ save_failed = {}

\* The start without a log file
Init ==
    /\ StartOfProcess
    /\ hash_in = NoHashInput
    /\ hash_out = NoHashCall
    /\ control_log = <<>>
    /\ log_file = [exists |-> FALSE, entries |-> <<>>]

----------------------------------------------------------------------------
(* The MQTT thread: on_message *)

Started == {d \in Dispatchers : pc[d] # "unstarted"}
MqttRecords == Cardinality({i \in 1..Len(control_log) : control_log[i].source = "mqtt"})

\* threading.Thread(target=trigger_dify_workflow, args=(payload,)).start()
StartDispatcher(payload, topic) ==
    LET d == Cardinality(Started) + 1 IN
    /\ d \in Dispatchers
    /\ pc' = [pc EXCEPT ![d] = "start"]
    /\ sensor_arg' = [sensor_arg EXCEPT ![d] = payload]
    /\ arrived_at' = [arrived_at EXCEPT ![d] = now]
    /\ started_by' = [started_by EXCEPT ![d] = topic]
    /\ UNCHANGED <<empty_attempt, control_output, backoff, inserted_at, calls,
                   history_vars>>

\* on_message, a message of TOPIC_SENSOR
SensorMessage(text) ==
    /\ latest_sensor_data' = DecodePayload(text)
    /\ StartDispatcher(DecodePayload(text), "sensor")
    /\ UNCHANGED <<hash_vars, save_vars, now, store_vars, cache_vars>>

\* on_message, a message of TOPIC_CONTROL that _is_empty_control
EmptyControlMessage(text) ==
    /\ IsEmptyControl(DecodePayload(text))
    /\ IF Truthy(latest_sensor_data)
       THEN StartDispatcher(latest_sensor_data, "control")
       ELSE UNCHANGED thread_vars
    /\ UNCHANGED <<hash_vars, save_vars, now, latest_sensor_data,
                   store_vars, cache_vars>>

\* A variant that records the latest reading as it is, None included
MqttEntryAsCached(t, latest, payload) == LogEntry(t, latest, payload, "mqtt")

\* on_message: record_combined(latest_sensor_data or {}, payload, source="mqtt")
MqttEntry(t, latest, payload) ==
    LogEntry(t, IF Truthy(latest) THEN latest ELSE EmptyDict, payload, "mqtt")

\* on_message, any other message of TOPIC_CONTROL: recorded unless its hash
\* is one of the recent successes
ControlMessage(text) ==
    LET payload == DecodePayload(text)
        h == MakeRecordHash(PyOr(latest_sensor_data, EmptyDict), payload)
        skip == RecentLive(recent_success_hashes, h, now)
    IN  /\ ~IsEmptyControl(payload)
        /\ IF skip
           THEN UNCHANGED store_vars
           ELSE /\ MqttRecords < MaxMqttRecords
                /\ control_log' = Append(control_log, MqttEntry(now, latest_sensor_data, payload))
                /\ log_file' = SaveLogFile(control_log', now)
        /\ UNCHANGED <<hash_vars, save_vars, now, latest_sensor_data,
                   cache_vars, thread_vars>>

----------------------------------------------------------------------------
(* A dispatcher thread: trigger_dify_workflow *)

\* `return`: the thread ends, and its arguments and local variables with it
Return(d) ==
    /\ pc' = [pc EXCEPT ![d] = "done"]
    /\ sensor_arg' = [sensor_arg EXCEPT ![d] = None]
    /\ empty_attempt' = [empty_attempt EXCEPT ![d] = 0]
    /\ control_output' = [control_output EXCEPT ![d] = None]
    /\ backoff' = [backoff EXCEPT ![d] = 0]
    /\ inserted_at' = [inserted_at EXCEPT ![d] = 0]
    /\ calls' = [calls EXCEPT ![d] = 0]
    /\ arrived_at' = [arrived_at EXCEPT ![d] = 0]
    /\ started_by' = [started_by EXCEPT ![d] = "none"]

\* The arrivals of the dispatches of hash h that made a call so far
CallArrivals(h) == IF h \in DOMAIN call_arrivals THEN call_arrivals[h] ELSE <<>>

\* The in-flight check, and the first requests.post
EntryGuard(d) ==
    LET swept == SweepInflight(inflight_workflows, now) IN
    /\ pc[d] = "start"
    /\ IF RecordHash(d) \in DOMAIN swept
       THEN /\ inflight_workflows' = swept
            /\ Return(d)
            /\ UNCHANGED call_arrivals
       ELSE /\ inflight_workflows' = Put(swept, RecordHash(d), now)
            /\ inserted_at' = [inserted_at EXCEPT ![d] = now]
            /\ pc' = [pc EXCEPT ![d] = "requesting"]
            /\ calls' = [calls EXCEPT ![d] = 1]
            /\ arrived_at' = [arrived_at EXCEPT ![d] = 0]
            /\ started_by' = [started_by EXCEPT ![d] = "none"]
            /\ call_arrivals' =
                   Put(call_arrivals, RecordHash(d),
                       Append(CallArrivals(RecordHash(d)), arrived_at[d]))
            /\ UNCHANGED <<sensor_arg, empty_attempt, control_output, backoff>>
    /\ UNCHANGED <<hash_vars, save_vars, now, latest_sensor_data,
                   store_vars, recent_success_hashes,
                   timeout_held>>

\* r.status_code != 200
HttpError(d, status) ==
    /\ pc[d] = "requesting"
    /\ status # 200
    /\ inflight_workflows' = InflightAfterHttpError(inflight_workflows, RecordHash(d))
    /\ Return(d)
    /\ UNCHANGED <<hash_vars, save_vars, now, latest_sensor_data,
                   store_vars, recent_success_hashes,
                   history_vars>>

\* A variant that records the control output without the reading
WorkflowEntryWithoutReading(t, sensor_data, control_data) ==
    LogEntry(t, EmptyDict, control_data, "workflow")

\* record_combined(sensor_data, control_output, source="workflow"): the entry
WorkflowEntry(t, sensor_data, control_data) ==
    LogEntry(t, sensor_data, control_data, "workflow")

\* 200 with a control output: record_combined as far as save_log_file
Success(d, result) ==
    LET c == ExtractControl(result) IN
    /\ pc[d] = "requesting"
    /\ Truthy(c)
    /\ control_output' = [control_output EXCEPT ![d] = c]
    /\ IF RecordSkipped(sensor_arg[d], c)
       THEN /\ pc' = [pc EXCEPT ![d] = "release"]
            /\ UNCHANGED store_vars
       ELSE /\ pc' = [pc EXCEPT ![d] = "cache"]
            /\ control_log' = Append(control_log, WorkflowEntry(now, sensor_arg[d], c))
            /\ log_file' = SaveLogFile(control_log', now)
    /\ UNCHANGED <<hash_vars, save_vars, now, latest_sensor_data,
                   cache_vars, sensor_arg, empty_attempt,
                   backoff, inserted_at, calls, arrived_at, started_by, history_vars>>

\* record_combined, source "workflow": the hash is cached, the expired ones removed
CacheSuccess(d) ==
    /\ pc[d] = "cache"
    /\ recent_success_hashes' =
           CleanupRecentHashes(
               Put(recent_success_hashes,
                   MakeRecordHash(sensor_arg[d], control_output[d]), now), now)
    /\ pc' = [pc EXCEPT ![d] = "release"]
    /\ UNCHANGED <<hash_vars, save_vars, now, latest_sensor_data,
                   store_vars, inflight_workflows,
                   local_vars, history_vars>>

\* back in trigger_dify_workflow: the in-flight entry is removed
ReleaseSuccess(d) ==
    /\ pc[d] = "release"
    /\ inflight_workflows' = InflightAfterSuccess(inflight_workflows, RecordHash(d))
    /\ Return(d)
    /\ UNCHANGED <<hash_vars, save_vars, now, latest_sensor_data,
                   store_vars, recent_success_hashes,
                   history_vars>>

\* 200 without a control output: retry after a sleep, or give up
EmptyOutput(d, result) ==
    /\ pc[d] = "requesting"
    /\ ~Truthy(ExtractControl(result))
    /\ IF RetryAllowed(empty_attempt[d] + 1)
       THEN /\ empty_attempt' = [empty_attempt EXCEPT ![d] = @ + 1]
            /\ backoff' = [backoff EXCEPT ![d] = Backoff(empty_attempt[d] + 1)]
            /\ pc' = [pc EXCEPT ![d] = "sleeping"]
            /\ UNCHANGED <<inflight_workflows, sensor_arg, control_output,
                           inserted_at, calls, arrived_at, started_by>>
       ELSE /\ inflight_workflows' =
                   InflightAfterEmptyExhausted(inflight_workflows, RecordHash(d))
            /\ Return(d)
    /\ UNCHANGED <<hash_vars, save_vars, now, latest_sensor_data,
                   store_vars, recent_success_hashes,
                   history_vars>>

\* time.sleep(backoff) returns: the request is made again
Retry(d) ==
    /\ pc[d] = "sleeping"
    /\ pc' = [pc EXCEPT ![d] = "requesting"]
    /\ calls' = [calls EXCEPT ![d] = @ + 1]
    /\ UNCHANGED <<hash_vars, save_vars, now, latest_sensor_data,
                   store_vars, cache_vars, sensor_arg,
                   empty_attempt, control_output, backoff, inserted_at, arrived_at,
                   started_by, history_vars>>

\* requests.exceptions.ReadTimeout
ReadTimeout(d) ==
    /\ pc[d] = "requesting"
    /\ inflight_workflows' = InflightAfterReadTimeout(inflight_workflows, RecordHash(d))
    /\ timeout_held' = Put(timeout_held, RecordHash(d), inserted_at[d])
    /\ Return(d)
    /\ UNCHANGED <<hash_vars, save_vars, now, latest_sensor_data,
                   store_vars, recent_success_hashes,
                   call_arrivals>>

\* requests.exceptions.ConnectionError
ConnectionError(d) ==
    /\ pc[d] = "requesting"
    /\ inflight_workflows' = InflightAfterConnectionError(inflight_workflows, RecordHash(d))
    /\ Return(d)
    /\ UNCHANGED <<hash_vars, save_vars, now, latest_sensor_data,
                   store_vars, recent_success_hashes,
                   history_vars>>

\* any other exception of the request (the body is not JSON, ...)
OtherException(d) ==
    /\ pc[d] = "requesting"
    /\ inflight_workflows' = InflightAfterException(inflight_workflows, RecordHash(d))
    /\ Return(d)
    /\ UNCHANGED <<hash_vars, save_vars, now, latest_sensor_data,
                   store_vars, recent_success_hashes,
                   history_vars>>

----------------------------------------------------------------------------
(* Time passes *)

Tick(max_ticks) ==
    /\ now < StartTime + max_ticks * TimeUnit
    /\ now' = now + TimeUnit
    /\ UNCHANGED <<hash_vars, save_vars, latest_sensor_data, store_vars, cache_vars, thread_vars>>

Next ==
    \/ Tick(MaxControlTicks)
    \/ \E text \in SensorTexts : SensorMessage(text)
    \/ \E text \in ControlTexts : EmptyControlMessage(text)
    \/ \E text \in ControlTexts : ControlMessage(text)
    \/ \E d \in Dispatchers : EntryGuard(d)
    \/ \E d \in Dispatchers, status \in ErrorStatuses : HttpError(d, status)
    \/ \E d \in Dispatchers, result \in Bodies : Success(d, result)
    \/ \E d \in Dispatchers : CacheSuccess(d)
    \/ \E d \in Dispatchers : ReleaseSuccess(d)
    \/ \E d \in Dispatchers, result \in Bodies : EmptyOutput(d, result)
    \/ \E d \in Dispatchers : Retry(d)
    \/ \E d \in Dispatchers : ReadTimeout(d)
    \/ \E d \in Dispatchers : ConnectionError(d)
    \/ \E d \in Dispatchers : OtherException(d)

Spec == Init /\ [][Next]_vars

\* The same program when only sensor messages arrive, over a longer time
NextDispatch ==
    \/ Tick(MaxTicks)
    \/ \E text \in SensorTexts : SensorMessage(text)
    \/ \E d \in Dispatchers : EntryGuard(d)
    \/ \E d \in Dispatchers, status \in ErrorStatuses : HttpError(d, status)
    \/ \E d \in Dispatchers, result \in Bodies : Success(d, result)
    \/ \E d \in Dispatchers : CacheSuccess(d)
    \/ \E d \in Dispatchers : ReleaseSuccess(d)
    \/ \E d \in Dispatchers, result \in Bodies : EmptyOutput(d, result)
    \/ \E d \in Dispatchers : Retry(d)
    \/ \E d \in Dispatchers : ReadTimeout(d)
    \/ \E d \in Dispatchers : ConnectionError(d)
    \/ \E d \in Dispatchers : OtherException(d)

SpecDispatch == Init /\ [][NextDispatch]_vars

----------------------------------------------------------------------------
(* The start with a log file, and the saves that follow *)

\* An entry of the file that is loaded
LoadedEntry(ts) ==
    [timestamp |-> ts, sensor_data |-> S_t30, control_command |-> C_valve_open,
     source |-> "workflow"]

\* The timestamps of the entries of a short file: older than 7 days at the
\* start, 7 days old after one tick (with and without an offset), new, one
\* that does not parse, and none
LoadedTimestamps ==
    { IsoFormat(StartTime - RETENTION_DAYS * 86400 - TimeUnit),
      IsoFormat(StartTime - RETENTION_DAYS * 86400 + TimeUnit),
      NaiveTimestamp(StartTime - RETENTION_DAYS * 86400 + TimeUnit),
      IsoFormat(StartTime - TimeUnit),
      UnparsableTimestamp,
      NoTimestamp }

\* The short files: every sequence of at most MaxLoaded such entries
ShortLogs ==
    UNION { [1..n -> {LoadedEntry(ts) : ts \in LoadedTimestamps}] : n \in 0..MaxLoaded }

\* A long file of n entries, one second apart, in which the entries at the
\* positions of `old` are older than 7 days and those of `bad` do not parse
LongLog(n, old, bad) ==
    [i \in 1..n |->
        LoadedEntry(CASE i \in old -> IsoFormat(StartTime - (RETENTION_DAYS + 1) * 86400 + i)
                      [] i \in bad -> UnparsableTimestamp
                      [] OTHER -> IsoFormat(StartTime - 86400 + i))]

\* The long files: of MAX_HISTORY entries, LongSlack more or fewer
LongLogs ==
    { LongLog(n, old, bad) :
        n \in (MAX_HISTORY - LongSlack)..(MAX_HISTORY + LongSlack),
        old \in {{}, {2}},
        bad \in {{}, {1, 3}} }

\* The start with a log file: control_log = json.load(f)
InitLoaded ==
    /\ StartOfProcess
    /\ hash_in = NoHashInput
    /\ hash_out = NoHashCall
    /\ control_log \in ShortLogs \cup LongLogs
    /\ log_file = [exists |-> TRUE, entries |-> control_log]

\* The control messages that are recorded, as time passes
NextPersist ==
    \/ Tick(MaxPersistTicks)
    \/ \E text \in ControlTexts : ControlMessage(text)

SpecPersist == InitLoaded /\ [][NextPersist]_vars

----------------------------------------------------------------------------
(* save_log_file step by step, in the threads that run record_combined *)

\* A part of the text json.dump makes of to_write: the buffer of the file
\* object is written when it fills, and what is left at f.flush()
Chunk(part, to_write) == [part |-> part, of |-> to_write]

\* What a write past the end of a file leaves before it
Hole == [part |-> 0, of |-> <<>>]

\* A write of chunk c at position k of a file
WriteAt(chunks, k, c) ==
    [i \in 1..(IF Len(chunks) >= k THEN Len(chunks) ELSE k) |->
        IF i = k THEN c ELSE IF i <= Len(chunks) THEN chunks[i] ELSE Hole]

\* The text of a file is the whole text of one json.dump
Complete(chunks) ==
    /\ Len(chunks) = 2
    /\ chunks[1].part = 1
    /\ chunks[2].part = 2
    /\ chunks[1].of = chunks[2].of

\* json.load of a file: its entries, none when the text does not parse
JsonLoad(chunks) == IF Complete(chunks) THEN chunks[1].of ELSE <<>>

\* LOG_FILE when it is the file f
LogFileOf(f) ==
    [exists |-> TRUE, entries |-> JsonLoad(f.chunks), id |-> f.id,
     chunks |-> f.chunks]

\* The MQTT network thread is between two messages
MqttIdle == saving[MqttThread].pc = "idle"

\* on_message, a message of TOPIC_CONTROL that is recorded:
\* record_combined as far as control_log.append(entry)
ControlAppend(text) ==
    LET payload == DecodePayload(text)
        h == MakeRecordHash(PyOr(latest_sensor_data, EmptyDict), payload)
    IN  /\ MqttIdle
        /\ ~IsEmptyControl(payload)
        /\ ~RecentLive(recent_success_hashes, h, now)
        /\ MqttRecords < MaxMqttRecords
        /\ control_log' = Append(control_log, MqttEntry(now, latest_sensor_data, payload))
        /\ saving' = [saving EXCEPT ![MqttThread].pc = "begin",
                                    ![MqttThread].appended = Len(control_log')]
        /\ UNCHANGED <<hash_vars, now, latest_sensor_data, log_file, cache_vars, thread_vars,
                       tmp_file, files_created, restarts,
                   save_failed>>

\* on_message, a message of TOPIC_CONTROL that is one of the recent successes
SuppressedControlMessage(text) ==
    /\ MqttIdle
    /\ RecentLive(recent_success_hashes,
                  MakeRecordHash(PyOr(latest_sensor_data, EmptyDict), DecodePayload(text)),
                  now)
    /\ ControlMessage(text)

\* 200 with a control output: record_combined as far as control_log.append(entry)
SuccessAppend(d, result) ==
    LET c == ExtractControl(result) IN
    /\ pc[d] = "requesting"
    /\ Truthy(c)
    /\ control_output' = [control_output EXCEPT ![d] = c]
    /\ IF RecordSkipped(sensor_arg[d], c)
       THEN /\ pc' = [pc EXCEPT ![d] = "release"]
            /\ UNCHANGED <<control_log, saving>>
       ELSE /\ pc' = [pc EXCEPT ![d] = "saving"]
            /\ control_log' = Append(control_log, WorkflowEntry(now, sensor_arg[d], c))
            /\ saving' = [saving EXCEPT ![d].pc = "begin",
                                        ![d].appended = Len(control_log')]
    /\ UNCHANGED <<hash_vars, now, latest_sensor_data, log_file, cache_vars, sensor_arg,
                   empty_attempt, backoff, inserted_at, calls, arrived_at,
                   started_by, history_vars, tmp_file, files_created, restarts,
                   save_failed>>

\* save_log_file: now and seven_days_ago are taken, the loop begins
BeginScan(th) ==
    /\ saving[th].pc = "begin"
    /\ saving' = [saving EXCEPT ![th].pc = "scan", ![th].start = now]
    /\ UNCHANGED <<hash_vars, now, latest_sensor_data, store_vars, cache_vars, thread_vars,
                   tmp_file, files_created, restarts,
                   save_failed>>

\* save_log_file: the loop over control_log ends, with the entries appended
\* while it ran, and to_write is cut
EndScan(th) ==
    /\ saving[th].pc = "scan"
    /\ saving' = [saving EXCEPT ![th].pc = "open",
                                ![th].to_write = ToWrite(control_log, saving[th].start)]
    /\ UNCHANGED <<hash_vars, now, latest_sensor_data, store_vars, cache_vars, thread_vars,
                   tmp_file, files_created, restarts,
                   save_failed>>

\* open(tmp_path, "w"): the file at the path is emptied, or one is created
OpenTmp(th) ==
    /\ saving[th].pc = "open"
    /\ IF tmp_file.exists
       THEN /\ tmp_file' = [tmp_file EXCEPT !.chunks = <<>>]
            /\ UNCHANGED files_created
       ELSE /\ files_created' = files_created + 1
            /\ tmp_file' = [exists |-> TRUE, id |-> files_created', chunks |-> <<>>]
    /\ saving' = [saving EXCEPT ![th].pc = "write", ![th].fd = tmp_file'.id]
    /\ UNCHANGED <<hash_vars, now, latest_sensor_data, store_vars, cache_vars, thread_vars,
                   restarts,
                   save_failed>>

\* A write of the k-th chunk to the open file of the thread, wherever that
\* file is by now: at the temporary path, at LOG_FILE, or at no path
WriteTo(th, k) ==
    LET c == Chunk(k, saving[th].to_write) IN
    IF tmp_file.exists /\ tmp_file.id = saving[th].fd
    THEN /\ tmp_file' = [tmp_file EXCEPT !.chunks = WriteAt(@, k, c)]
         /\ UNCHANGED log_file
    ELSE /\ UNCHANGED tmp_file
         /\ IF log_file.exists /\ log_file.id = saving[th].fd
            THEN log_file' = LogFileOf([id |-> log_file.id,
                                        chunks |-> WriteAt(log_file.chunks, k, c)])
            ELSE UNCHANGED log_file

\* json.dump(to_write, f, ...): the buffer fills and is written
WriteFirst(th) ==
    /\ saving[th].pc = "write"
    /\ WriteTo(th, 1)
    /\ saving' = [saving EXCEPT ![th].pc = "flush"]
    /\ UNCHANGED <<hash_vars, now, latest_sensor_data, control_log, cache_vars, thread_vars,
                   files_created, restarts,
                   save_failed>>

\* f.flush(), os.fsync, and the file is closed
Flush(th) ==
    /\ saving[th].pc = "flush"
    /\ WriteTo(th, 2)
    /\ saving' = [saving EXCEPT ![th].pc = "replace"]
    /\ UNCHANGED <<hash_vars, now, latest_sensor_data, control_log, cache_vars, thread_vars,
                   files_created, restarts,
                   save_failed>>

\* save_log_file returns into record_combined; a dispatcher goes on to cache
\* the hash
EndSave(th) ==
    /\ saving' = [saving EXCEPT ![th] = NotSaving]
    /\ IF th \in Dispatchers
       THEN pc' = [pc EXCEPT ![th] = "cache"]
       ELSE UNCHANGED pc

\* os.replace(tmp_path, LOG_FILE); when no file is at the temporary path it
\* raises, and the exception is caught at the end of save_log_file
Replace(th) ==
    /\ saving[th].pc = "replace"
    /\ IF tmp_file.exists
       THEN /\ log_file' = LogFileOf(tmp_file)
            /\ tmp_file' = NoFile
            /\ save_failed' = {i \in save_failed : i > saving[th].appended}
       ELSE /\ save_failed' = save_failed \cup {saving[th].appended}
            /\ UNCHANGED <<log_file, tmp_file>>
    /\ EndSave(th)
    /\ UNCHANGED <<hash_vars, now, latest_sensor_data, control_log, cache_vars, local_vars,
                   history_vars, files_created, restarts>>

\* open, a write or os.replace raises: `except Exception` ends save_log_file
SaveFails(th) ==
    /\ saving[th].pc \in {"open", "write", "flush", "replace"}
    /\ save_failed' = save_failed \cup {saving[th].appended}
    /\ EndSave(th)
    /\ UNCHANGED <<hash_vars, now, latest_sensor_data, store_vars, cache_vars, local_vars,
                   history_vars, tmp_file, files_created, restarts>>

\* The entries the module loads at import: json.load(f) when LOG_FILE is
\* there, [] when it is not or does not parse
LoadedLog(file) == IF file.exists THEN file.entries ELSE <<>>

\* A start that finds the two caches as they were left
RestartKeepingCaches ==
    /\ restarts < MaxRestarts
    /\ restarts' = restarts + 1
    /\ control_log' = LoadedLog(log_file)
    /\ latest_sensor_data' = None
    /\ pc' = [d \in Dispatchers |-> "unstarted"]
    /\ sensor_arg' = [d \in Dispatchers |-> None]
    /\ empty_attempt' = [d \in Dispatchers |-> 0]
    /\ control_output' = [d \in Dispatchers |-> None]
    /\ backoff' = [d \in Dispatchers |-> 0]
    /\ calls' = [d \in Dispatchers |-> 0]
    /\ inserted_at' = [d \in Dispatchers |-> 0]
    /\ arrived_at' = [d \in Dispatchers |-> 0]
    /\ started_by' = [d \in Dispatchers |-> "none"]
    /\ saving' = [th \in Threads |-> NotSaving]
    /\ save_failed' = {}
    /\ UNCHANGED <<hash_vars, now, log_file, tmp_file, files_created, history_vars, cache_vars>>

\* The process ends at any point and is started again: the module globals
\* are as at import, the files are as they were
Restart ==
    /\ restarts < MaxRestarts
    /\ restarts' = restarts + 1
    /\ control_log' = LoadedLog(log_file)
    /\ latest_sensor_data' = None
    /\ recent_success_hashes' = <<>>
    /\ inflight_workflows' = <<>>
    /\ pc' = [d \in Dispatchers |-> "unstarted"]
    /\ sensor_arg' = [d \in Dispatchers |-> None]
    /\ empty_attempt' = [d \in Dispatchers |-> 0]
    /\ control_output' = [d \in Dispatchers |-> None]
    /\ backoff' = [d \in Dispatchers |-> 0]
    /\ calls' = [d \in Dispatchers |-> 0]
    /\ inserted_at' = [d \in Dispatchers |-> 0]
    /\ arrived_at' = [d \in Dispatchers |-> 0]
    /\ started_by' = [d \in Dispatchers |-> "none"]
    /\ saving' = [th \in Threads |-> NotSaving]
    /\ save_failed' = {}
    /\ UNCHANGED <<hash_vars, now, log_file, tmp_file, files_created, history_vars>>

\* The readings, control messages and responses of the runs in which saves
\* are followed step by step
StoreSensorTexts == {T_t30_h5}
StoreControlTexts == {T_valve_open}
StoreBodies == {Body(TRUE, C_valve_open, None, None, None)}

NextStore ==
    \/ \E text \in StoreSensorTexts : MqttIdle /\ SensorMessage(text)
    \/ \E text \in StoreControlTexts : ControlAppend(text)
    \/ \E text \in StoreControlTexts : SuppressedControlMessage(text)
    \/ \E d \in Dispatchers : EntryGuard(d)
    \/ \E d \in Dispatchers, result \in StoreBodies : SuccessAppend(d, result)
    \/ \E th \in Threads : BeginScan(th)
    \/ \E th \in Threads : EndScan(th)
    \/ \E th \in Threads : OpenTmp(th)
    \/ \E th \in Threads : WriteFirst(th)
    \/ \E th \in Threads : Flush(th)
    \/ \E th \in Threads : Replace(th)
    \/ \E th \in Threads : SaveFails(th)
    \/ \E d \in Dispatchers : CacheSuccess(d)
    \/ \E d \in Dispatchers : ReleaseSuccess(d)
    \/ Restart

SpecStore == Init /\ [][NextStore]_vars

----------------------------------------------------------------------------
(* The same program when a sensor message may be the JSON text null *)

NullSensorTexts == {T_null, T_t30_h5}

NextNull ==
    \/ Tick(MaxControlTicks)
    \/ \E text \in NullSensorTexts : SensorMessage(text)
    \/ \E text \in ControlTexts : EmptyControlMessage(text)
    \/ \E text \in ControlTexts : ControlMessage(text)
    \/ \E d \in Dispatchers : EntryGuard(d)
    \/ \E d \in Dispatchers, status \in ErrorStatuses : HttpError(d, status)
    \/ \E d \in Dispatchers, result \in Bodies : Success(d, result)
    \/ \E d \in Dispatchers : CacheSuccess(d)
    \/ \E d \in Dispatchers : ReleaseSuccess(d)
    \/ \E d \in Dispatchers, result \in Bodies : EmptyOutput(d, result)
    \/ \E d \in Dispatchers : Retry(d)
    \/ \E d \in Dispatchers : ReadTimeout(d)
    \/ \E d \in Dispatchers : ConnectionError(d)
    \/ \E d \in Dispatchers : OtherException(d)

SpecNull == Init /\ [][NextNull]_vars

----------------------------------------------------------------------------
(* The program over a restart *)

\* A LOG_FILE whose text does not parse: a hole and the end of a text
TornLogFile ==
    LogFileOf([id |-> 1,
               chunks |-> <<Hole, Chunk(2, <<LoadedEntry(IsoFormat(StartTime - TimeUnit))>>)>>])

\* A LOG_FILE of one entry
OneEntryLogFile ==
    [exists |-> TRUE, entries |-> <<LoadedEntry(IsoFormat(StartTime - TimeUnit))>>]

\* The start with no LOG_FILE, with one that does not parse, or with one of
\* one entry
InitRestart ==
    /\ StartOfProcess
    /\ hash_in = NoHashInput
    /\ hash_out = NoHashCall
    /\ log_file \in {[exists |-> FALSE, entries |-> <<>>], TornLogFile, OneEntryLogFile}
    /\ control_log = LoadedLog(log_file)

RestartSensorTexts == {T_t30_h5}
RestartControlTexts == {T_valve_open}
RestartBodies == {Body(TRUE, C_valve_open, None, None, None)}

NextRestart ==
    \/ Tick(MaxControlTicks)
    \/ \E text \in RestartSensorTexts : SensorMessage(text)
    \/ \E text \in RestartControlTexts : ControlMessage(text)
    \/ \E d \in Dispatchers : EntryGuard(d)
    \/ \E d \in Dispatchers, result \in RestartBodies : Success(d, result)
    \/ \E d \in Dispatchers : CacheSuccess(d)
    \/ \E d \in Dispatchers : ReleaseSuccess(d)
    \/ \E d \in Dispatchers : ReadTimeout(d)
    \/ Restart

SpecRestart == InitRestart /\ [][NextRestart]_vars

----------------------------------------------------------------------------
(* _make_record_hash and its callers, over bounded arguments *)

XY == Nested(<< <<"x", Num("1")>>, <<"y", Num("2")>> >>)
YX == Nested(<< <<"y", Num("2")>>, <<"x", Num("1")>> >>)

\* The items of a sensor argument: a number, a value json.dumps cannot
\* serialise, and a mapping in its two orders
HashItems ==
    { <<"h", Num("30")>>, <<"h", Bytes>>, <<"t", Num("30")>>, <<"t", XY>>, <<"t", YX>> }

\* The sensor arguments: None, and the mappings of at most MaxHashKeys of
\* these items with different keys, in every order
HashSensors ==
    {None} \cup
    UNION { { Obj(items) : items \in
                { s \in [1..n -> HashItems] :
                    \A i, j \in 1..n : i # j => s[i][1] # s[j][1] } } :
            n \in 0..MaxHashKeys }

\* The control arguments
HashControls ==
    {EmptyDict, C_valve_open} \cup
    { Obj(<< <<"valve", v>> >>) : v \in {XY, YX, Bytes} }

HashInputs == [a : HashSensors, b : HashControls]

\* What a mapping holds, whatever the order of its keys at any level
RECURSIVE ContentOf(_)
ContentOf(items) ==
    { [key |-> items[i][1], type |-> items[i][2].type, text |-> items[i][2].text,
       content |-> IF items[i][2].type = "obj"
                   THEN ContentOf(items[i][2].items) ELSE {}] :
        i \in 1..Len(items) }

SameContent(x, y) == x.kind = y.kind /\ ContentOf(x.items) = ContentOf(y.items)

\* The same arguments arrive with their keys in another order
Reorder ==
    /\ hash_in' \in { i \in HashInputs :
                        /\ i # hash_in
                        /\ SameContent(i.a, hash_in.a)
                        /\ SameContent(i.b, hash_in.b) }
    /\ UNCHANGED <<hash_out, save_vars, now, latest_sensor_data, store_vars,
                   cache_vars, thread_vars>>

\* What the caller is left with after a call on the arguments at hand
Called(caller, result) ==
    /\ hash_out' = [caller |-> caller, result |-> result,
                    continues |-> result # Raised,
                    of |-> hash_in, before |-> hash_out.of,
                    caller_before |-> hash_out.caller]
    /\ UNCHANGED <<hash_in, save_vars, now, latest_sensor_data, store_vars,
                   cache_vars, thread_vars>>

\* trigger_dify_workflow: record_hash = _make_record_hash(sensor_data, {}),
\* and when that raises the digest of sensor_data alone, which raises out of
\* the thread when sensor_data cannot be serialised
GuardCall ==
    LET r == MakeRecordHash(hash_in.a, EmptyDict) IN
    Called("guard",
           IF r # Raised THEN r
           ELSE IF Serialisable(hash_in.a)
                THEN [sensor_alone |-> JsonDumpsSorted(hash_in.a)]
                ELSE Raised)

\* record_combined, source "workflow": h = _make_record_hash(sensor_data,
\* control_data); an exception is passed over and nothing is cached
CommitCall ==
    /\ ~RecordSkipped(hash_in.a, hash_in.b)
    /\ Called("commit", MakeRecordHash(hash_in.a, hash_in.b))

\* on_message: h = _make_record_hash(latest_sensor_data or {}, payload); an
\* exception leaves on_message
ControlCall ==
    Called("control", MakeRecordHash(PyOr(hash_in.a, EmptyDict), hash_in.b))

InitHash ==
    /\ StartOfProcess
    /\ control_log = <<>>
    /\ log_file = [exists |-> FALSE, entries |-> <<>>]
    /\ hash_in \in HashInputs
    /\ hash_out = NoHashCall

NextHash ==
    \/ Tick(MaxControlTicks)
    \/ Reorder
    \/ GuardCall
    \/ CommitCall
    \/ ControlCall

SpecHash == InitHash /\ [][NextHash]_vars

----------------------------------------------------------------------------
(* The same program when a sensor message may be a text that is not JSON *)

RawSensorTexts == {T_space, T_t30_h5, T_h5_t30}

NextSensor ==
    \/ Tick(MaxControlTicks)
    \/ \E text \in RawSensorTexts : SensorMessage(text)
    \/ \E text \in ControlTexts : EmptyControlMessage(text)
    \/ \E text \in ControlTexts : ControlMessage(text)
    \/ \E d \in Dispatchers : EntryGuard(d)
    \/ \E d \in Dispatchers, status \in ErrorStatuses : HttpError(d, status)
    \/ \E d \in Dispatchers : ReadTimeout(d)

SpecSensor == Init /\ [][NextSensor]_vars

----------------------------------------------------------------------------
(* The same program on a finer clock, for the ages at and next to the TTLs *)

TickBoundary ==
    /\ now < StartTime + MaxBoundaryTicks * BoundaryUnit
    /\ now' = now + BoundaryUnit
    /\ UNCHANGED <<hash_vars, save_vars, latest_sensor_data, store_vars, cache_vars,
                   thread_vars>>

NextBoundary ==
    \/ TickBoundary
    \/ \E text \in StoreSensorTexts : SensorMessage(text)
    \/ \E text \in StoreControlTexts : ControlMessage(text)
    \/ \E d \in Dispatchers : EntryGuard(d)
    \/ \E d \in Dispatchers, result \in StoreBodies : Success(d, result)
    \/ \E d \in Dispatchers : CacheSuccess(d)
    \/ \E d \in Dispatchers : ReleaseSuccess(d)
    \/ \E d \in Dispatchers : ReadTimeout(d)

SpecBoundary == Init /\ [][NextBoundary]_vars

----------------------------------------------------------------------------
(* The same program over more dispatches than threads alive at a time *)

\* The dispatches that passed their guard so far
RECURSIVE SumOfLengths(_, _)
SumOfLengths(f, keys) ==
    IF keys = {} THEN 0
    ELSE LET k == CHOOSE x \in keys : TRUE
         IN  Len(f[k]) + SumOfLengths(f, keys \ {k})

Passes == SumOfLengths(call_arrivals, DOMAIN call_arrivals)

\* The threads that have ended are gone: on_message keeps no reference to the
\* Thread objects it starts
Forget ==
    /\ \A d \in Dispatchers : pc[d] \in {"unstarted", "done"}
    /\ \E d \in Dispatchers : pc[d] = "done"
    /\ pc' = [d \in Dispatchers |-> "unstarted"]
    /\ UNCHANGED <<hash_vars, save_vars, now, latest_sensor_data, store_vars, cache_vars,
                   local_vars, history_vars>>

SweepSensorTexts == {T_t30_h5, T_empty}

\* A sensor message, while the run is short of MaxPasses dispatches
BoundedSensorMessage(text) == Passes < MaxPasses /\ SensorMessage(text)

NextSweep ==
    \/ Tick(MaxTicks)
    \/ \E text \in SweepSensorTexts : BoundedSensorMessage(text)
    \/ \E d \in Dispatchers : EntryGuard(d)
    \/ \E d \in Dispatchers, result \in StoreBodies : Success(d, result)
    \/ \E d \in Dispatchers : CacheSuccess(d)
    \/ \E d \in Dispatchers : ReleaseSuccess(d)
    \/ \E d \in Dispatchers : ReadTimeout(d)
    \/ Forget

SpecSweep == Init /\ [][NextSweep]_vars

----------------------------------------------------------------------------
(* The dispatcher threads when every thread runs on and every request ends *)

\* requests.post returns or raises: the request of d is answered, fails or
\* times out
Answered(d) ==
    \/ \E status \in ErrorStatuses : HttpError(d, status)
    \/ \E result \in Bodies : Success(d, result)
    \/ \E result \in Bodies : EmptyOutput(d, result)
    \/ ReadTimeout(d)
    \/ ConnectionError(d)
    \/ OtherException(d)

\* A started thread is scheduled again and again, time.sleep returns, and
\* requests.post ends (timeout=timeout_seconds)
Fairness ==
    \A d \in Dispatchers :
        /\ WF_vars(EntryGuard(d))
        /\ WF_vars(Answered(d))
        /\ WF_vars(Retry(d))
        /\ WF_vars(CacheSuccess(d))
        /\ WF_vars(ReleaseSuccess(d))

NextFair ==
    \/ Tick(MaxTicks)
    \/ \E text \in SweepSensorTexts : SensorMessage(text)
    \/ \E d \in Dispatchers : EntryGuard(d)
    \/ \E d \in Dispatchers : Answered(d)
    \/ \E d \in Dispatchers : Retry(d)
    \/ \E d \in Dispatchers : CacheSuccess(d)
    \/ \E d \in Dispatchers : ReleaseSuccess(d)

SpecFair == Init /\ [][NextFair]_vars /\ Fairness

----------------------------------------------------------------------------
(* In-flight suppression *)

\* The in-flight set holds hash h with a time at most the TTL before t
InflightLive(h, t) ==
    h \in DOMAIN inflight_workflows /\ t - inflight_workflows[h] <= DIFY_INFLIGHT_TTL

\* Two times at most ttl apart
Within(a, b, ttl) == a - b <= ttl /\ b - a <= ttl

\* A record of source "workflow" for the sensor content of hash h
WorkflowRecorded(h) ==
    \E i \in 1..Len(control_log) :
        /\ control_log[i].source = "workflow"
        /\ JsonDumpsSorted(control_log[i].sensor_data) = h.sensor

\* C1, as stated: of two sensor events of the same content that arrive at most
\* the in-flight TTL apart, only one dispatch makes a workflow call, however
\* the first dispatch ended and whether or not it has ended.
C1_OneCallWithinTtl ==
    \A h \in DOMAIN call_arrivals :
        \A i, j \in 1..Len(call_arrivals[h]) :
            i < j => ~Within(call_arrivals[h][i], call_arrivals[h][j], DIFY_INFLIGHT_TTL)

\* C1, amended: a dispatch makes no workflow call exactly when, at its guard,
\* the in-flight set holds its hash with a time at most the TTL old (the marker
\* is then left as it is); otherwise it puts its hash in the set with the
\* current time and makes its call.  A dispatch that ends otherwise than by a
\* read timeout leaves its hash out of the set, so that a second event of the
\* same content is suppressed only while a marker is held.
C1_SuppressedIffMarkerLive ==
    [][\A d \in Dispatchers :
        /\ EntryGuard(d) =>
              IF InflightLive(RecordHash(d), now)
              THEN /\ pc'[d] = "done"
                   /\ call_arrivals' = call_arrivals
                   /\ RecordHash(d) \in DOMAIN inflight_workflows'
                   /\ inflight_workflows'[RecordHash(d)] = inflight_workflows[RecordHash(d)]
              ELSE /\ pc'[d] = "requesting"
                   /\ calls'[d] = 1
                   /\ Len(call_arrivals'[RecordHash(d)]) = Len(CallArrivals(RecordHash(d))) + 1
                   /\ inflight_workflows'[RecordHash(d)] = now
        /\ (pc[d] \in {"requesting", "release"} /\ pc'[d] = "done" /\ ~ReadTimeout(d))
              => RecordHash(d) \notin DOMAIN inflight_workflows'
      ]_vars

\* C1, the case: the first dispatch has ended with a record, and the dispatch
\* of a second event of the same content, arrived within the TTL, makes a call
C1_SecondCallAfterSuccess ==
    \E d \in Dispatchers :
        /\ pc[d] = "requesting"
        /\ calls[d] = 1
        /\ \A e \in Dispatchers \ {d} : pc[e] = "done"
        /\ Len(CallArrivals(RecordHash(d))) = 2
        /\ Within(CallArrivals(RecordHash(d))[1], CallArrivals(RecordHash(d))[2],
                  DIFY_INFLIGHT_TTL)
        /\ WorkflowRecorded(RecordHash(d))

----------------------------------------------------------------------------
(* Timeout-hold *)

\* C2: after a dispatch has ended with a read timeout, the in-flight set holds
\* its hash with the time of its insertion for as long as that time is at most
\* the TTL old, so that a dispatch of the same content started in that time
\* makes no call.
C2_TimeoutMarkerHeld ==
    \A h \in DOMAIN timeout_held :
        now - timeout_held[h] <= DIFY_INFLIGHT_TTL =>
            /\ h \in DOMAIN inflight_workflows
            /\ inflight_workflows[h] = timeout_held[h]

----------------------------------------------------------------------------
(* The ends of a dispatch *)

Last(s) == s[Len(s)]

\* The records and the file are what they were
StoreUnchanged == control_log' = control_log /\ log_file' = log_file

\* C3: a dispatch whose every response is a 200 without a control output makes
\* the request again DIFY_EMPTY_RETRIES times after the first one, with its
\* marker held, and at the empty response to request DIFY_EMPTY_RETRIES + 1
\* it ends, its hash leaves the in-flight set, and no record is written.
C3_EmptyRetryBound ==
    [][\A d \in Dispatchers :
        /\ calls'[d] <= DIFY_EMPTY_RETRIES + 1
        /\ \A result \in Bodies :
              EmptyOutput(d, result) =>
                  /\ StoreUnchanged
                  /\ recent_success_hashes' = recent_success_hashes
                  /\ IF calls[d] < DIFY_EMPTY_RETRIES + 1
                     THEN /\ pc'[d] = "sleeping"
                          /\ inflight_workflows' = inflight_workflows
                     ELSE /\ pc'[d] = "done"
                          /\ RecordHash(d) \notin DOMAIN inflight_workflows'
        /\ Retry(d) => pc'[d] = "requesting" /\ calls'[d] = calls[d] + 1
      ]_vars

\* C3, the case: every response so far was empty and the last request allowed
\* is under way, the marker still held and nothing recorded
C3_LastRetryUnderWay ==
    \E d \in Dispatchers :
        /\ pc[d] = "requesting"
        /\ calls[d] = DIFY_EMPTY_RETRIES + 1
        /\ empty_attempt[d] = DIFY_EMPTY_RETRIES
        /\ RecordHash(d) \in DOMAIN inflight_workflows
        /\ control_log = <<>>

\* C5: when a dispatch for the reading s gets a 200 with a control output c,
\* one record {sensor_data = s, control_command = c, source = "workflow"} is
\* appended to the log as it was, then the hash of {s, c} is put in the
\* recent-success cache, then the hash of s leaves the in-flight set and the
\* dispatch ends without another request.
C5_SuccessTransition ==
    [][\A d \in Dispatchers :
        /\ \A result \in Bodies :
              Success(d, result) =>
                  /\ control_log' = Append(control_log, Last(control_log'))
                  /\ Last(control_log').sensor_data = sensor_arg[d]
                  /\ Last(control_log').control_command = C_valve_open
                  /\ Last(control_log').source = "workflow"
                  /\ log_file'.entries = control_log'
                  /\ pc'[d] = "cache"
        /\ CacheSuccess(d) =>
              /\ MakeRecordHash(sensor_arg[d], C_valve_open) \in DOMAIN recent_success_hashes'
              /\ recent_success_hashes'[MakeRecordHash(sensor_arg[d], C_valve_open)] = now
              /\ StoreUnchanged
              /\ pc'[d] = "release"
        /\ ReleaseSuccess(d) =>
              /\ RecordHash(d) \notin DOMAIN inflight_workflows'
              /\ StoreUnchanged
              /\ pc'[d] = "done"
        /\ pc[d] \in {"cache", "release"} => calls'[d] <= calls[d]
      ]_vars

\* C5, the case: a dispatch has ended with its record written, the hash of the
\* record cached and no marker left
C5_Recorded ==
    /\ \A d \in Dispatchers : pc[d] \in {"unstarted", "done"}
    /\ Len(control_log) = 1
    /\ control_log[1].source = "workflow"
    /\ control_log[1].sensor_data = S_t30_h5
    /\ control_log[1].control_command = C_valve_open
    /\ MakeRecordHash(S_t30_h5, C_valve_open) \in DOMAIN recent_success_hashes
    /\ inflight_workflows = <<>>

\* C6, as stated: on a 429 the dispatch keeps its marker and makes the request
\* again after a backoff.
C6_RateLimitRetried ==
    [][\A d \in Dispatchers :
        HttpError(d, 429) =>
            /\ RecordHash(d) \in DOMAIN inflight_workflows'
            /\ pc'[d] \in {"sleeping", "requesting"}
      ]_vars

\* C6, amended: on a 429 the dispatch makes no other request: its hash leaves
\* the in-flight set at once and it ends, with no record and no cached hash,
\* as on any other status but 200.
C6_RateLimitEnds ==
    [][\A d \in Dispatchers :
        HttpError(d, 429) =>
            /\ pc'[d] = "done"
            /\ RecordHash(d) \notin DOMAIN inflight_workflows'
            /\ StoreUnchanged
            /\ recent_success_hashes' = recent_success_hashes
      ]_vars

\* C6, the case: a dispatch made its one call and has ended with nothing
\* recorded and no marker left, and none was held by a timeout
C6_EndedAfterOneCall ==
    \E d \in Dispatchers :
        /\ pc[d] = "done"
        /\ \A e \in Dispatchers \ {d} : pc[e] = "unstarted"
        /\ \E h \in DOMAIN call_arrivals : Len(call_arrivals[h]) = 1
        /\ inflight_workflows = <<>>
        /\ timeout_held = <<>>
        /\ control_log = <<>>

\* C7: when a dispatch ends with a status other than 200 and 429, a connection
\* failure or an exception other than a read timeout, it makes no other
\* request, writes no record, and its hash is not in the in-flight set
\* afterwards, so that the next dispatch of the same content passes the guard.
C7_FailureReleasesMarker ==
    [][\A d \in Dispatchers :
        (\/ \E status \in ErrorStatuses \ {429} : HttpError(d, status)
         \/ ConnectionError(d)
         \/ OtherException(d)) =>
            /\ pc'[d] = "done"
            /\ RecordHash(d) \notin DOMAIN inflight_workflows'
            /\ StoreUnchanged
            /\ recent_success_hashes' = recent_success_hashes
      ]_vars

\* C7, the case: after a first dispatch ended with nothing recorded and no
\* marker held, the dispatch of a second event of the same content has passed
\* the guard and made its call
C7_NextDispatchPasses ==
    \E d \in Dispatchers :
        /\ pc[d] = "requesting"
        /\ \A e \in Dispatchers \ {d} : pc[e] = "done"
        /\ Len(CallArrivals(RecordHash(d))) = 2
        /\ inflight_workflows = (RecordHash(d) :> inserted_at[d])
        /\ timeout_held = <<>>
        /\ control_log = <<>>

----------------------------------------------------------------------------
(* Control events *)

\* The hash the control handler computes for the payload of a message
ControlHash(text) ==
    MakeRecordHash(PyOr(latest_sensor_data, EmptyDict), DecodePayload(text))

\* When the record was written, in seconds
WrittenAt(e) == FromIsoFormatUtc(e.timestamp)

\* The log holds a record of source "workflow" of hash h, written at most the
\* duplicate window before t
RecentWorkflowRecord(h, t) ==
    \E i \in 1..Len(control_log) :
        /\ control_log[i].source = "workflow"
        /\ MakeRecordHash(control_log[i].sensor_data, control_log[i].control_command) = h
        /\ t - WrittenAt(control_log[i]) <= DUPLICATE_WINDOW_SECONDS

\* The handling of one message of the control topic
ControlEvent(text) == EmptyControlMessage(text) \/ ControlMessage(text)

\* C4: a control event whose hash over (latest reading, payload) is that of a
\* record of source "workflow" written at most 120 s before appends no record,
\* wherever the dispatcher that writes the record is, between its append and
\* its cache insert included.
C4_RecentSuccessSuppressed ==
    [][\A text \in ControlTexts :
        (ControlEvent(text) /\ RecentWorkflowRecord(ControlHash(text), now))
            => control_log' = control_log
      ]_vars

\* C8: the log never holds two records of the same sensor_data and the same
\* control_command written within 120 s of each other.
C8_NoDuplicateRecords ==
    \A i, j \in 1..Len(control_log) :
        i < j =>
            ~ /\ MakeRecordHash(control_log[i].sensor_data, control_log[i].control_command)
                   = MakeRecordHash(control_log[j].sensor_data, control_log[j].control_command)
              /\ Within(WrittenAt(control_log[i]), WrittenAt(control_log[j]),
                        DUPLICATE_WINDOW_SECONDS)

\* "All values falsy or empty", as C9 words the judgment
AllValuesFalsy(p) == \A v \in Values(p) : FalsyScalar(v)

\* A sole raw field that holds a blank string
SoleBlankRaw(p) == Keys(p) = <<"raw">> /\ IsBlankString(p.items[1][2])

\* A payload without keys, with all values falsy, or with a sole blank raw field
SaidEmpty(p) == p = None \/ p = EmptyDict \/ AllValuesFalsy(p) \/ SoleBlankRaw(p)

\* The same, where a value that is the number zero does not count as empty
JudgedEmpty(p) ==
    \/ p = None
    \/ p = EmptyDict
    \/ \A v \in Values(p) : v = Str("")
    \/ SoleBlankRaw(p)

\* This step starts a dispatch for the reading, and only that one
StartsOneDispatch(reading) ==
    \E d \in Dispatchers :
        /\ pc[d] = "unstarted"
        /\ pc' = [pc EXCEPT ![d] = "start"]
        /\ sensor_arg' = [sensor_arg EXCEPT ![d] = reading]
        /\ started_by'[d] = "control"

\* What an empty control event leaves alone
EmptyControlFrame ==
    /\ StoreUnchanged
    /\ recent_success_hashes' = recent_success_hashes
    /\ inflight_workflows' = inflight_workflows
    /\ latest_sensor_data' = latest_sensor_data

\* C9, as stated: a control event whose payload has no keys, only falsy values
\* or a sole blank raw field appends no record and leaves both caches alone; it
\* starts one dispatch for the latest reading if one is cached, none otherwise.
C9_SaidEmptyNotRecorded ==
    [][\A text \in ControlTexts :
        (ControlEvent(text) /\ SaidEmpty(DecodePayload(text))) =>
            /\ EmptyControlFrame
            /\ IF latest_sensor_data # None
               THEN StartsOneDispatch(latest_sensor_data)
               ELSE pc' = pc
      ]_vars

\* C9, amended: a control event whose payload is null or has no keys, has only
\* values that are falsy and not the number zero, or has a sole blank raw field
\* appends no record and leaves both caches and the latest reading alone; it
\* starts one dispatch for the latest reading if that reading is cached and
\* not empty, and when it is not, no such event can start a dispatch.
C9_EmptyControlEvent ==
    /\ [][\A text \in ControlTexts :
            (ControlEvent(text) /\ JudgedEmpty(DecodePayload(text))) =>
                /\ EmptyControlFrame
                /\ IF Truthy(latest_sensor_data)
                   THEN StartsOneDispatch(latest_sensor_data)
                   ELSE pc' = pc
         ]_vars
    /\ [](\A text \in ControlTexts :
            JudgedEmpty(DecodePayload(text)) =>
                /\ ~Truthy(latest_sensor_data) =>
                       ~ENABLED (ControlEvent(text) /\ pc' # pc)
                /\ (Truthy(latest_sensor_data) /\ Started # Dispatchers) =>
                       ENABLED (ControlEvent(text) /\ pc' # pc))

\* C9, the case: an empty control event has started a dispatch for the cached
\* reading, and nothing is recorded
C9_DispatchStartedByControl ==
    \E d \in Dispatchers :
        /\ pc[d] = "start"
        /\ started_by[d] = "control"
        /\ sensor_arg[d] = latest_sensor_data
        /\ control_log = <<>>

\* The recent-success cache holds hash h with a time at most the window before t
RecentSuccessLive(h, t) ==
    /\ h \in DOMAIN recent_success_hashes
    /\ t - recent_success_hashes[h] <= DUPLICATE_WINDOW_SECONDS

\* C10: a control event that is not empty and whose hash over (latest reading
\* or empty mapping, payload) is not live in the recent-success cache appends
\* one record, with source "mqtt", the payload as control_command, and as
\* sensor_data the latest reading, or the empty mapping when none is cached.
C10_ControlRecorded ==
    [][\A text \in ControlTexts :
        (/\ ControlEvent(text)
         /\ ~JudgedEmpty(DecodePayload(text))
         /\ ~RecentSuccessLive(ControlHash(text), now)) =>
            /\ control_log' = Append(control_log, Last(control_log'))
            /\ Last(control_log').source = "mqtt"
            /\ Last(control_log').control_command = DecodePayload(text)
            /\ Last(control_log').sensor_data =
                   (IF latest_sensor_data = None THEN EmptyDict ELSE latest_sensor_data)
            /\ WrittenAt(Last(control_log')) = now
            /\ log_file'.entries = control_log'
            /\ recent_success_hashes' = recent_success_hashes
            /\ inflight_workflows' = inflight_workflows
            /\ pc' = pc
      ]_vars

\* C10, the case: a control event of the hash of a workflow record was
\* recorded once the window of that record had passed
C10_RecordedAfterWindow ==
    \E i \in 1..Len(control_log) :
        LET h == MakeRecordHash(control_log[i].sensor_data, control_log[i].control_command)
        IN  /\ control_log[i].source = "mqtt"
            /\ control_log[i].control_command = C_valve_open
            /\ h \in DOMAIN recent_success_hashes
            /\ WrittenAt(control_log[i]) - recent_success_hashes[h] > DUPLICATE_WINDOW_SECONDS

----------------------------------------------------------------------------
(* Retention and cap of the saved file *)

\* The timestamp of e is parsed by fromisoformat
Parsed(e) == e.timestamp.kind \in {"aware", "naive"}

\* e has a timestamp that fromisoformat rejects
Unparsable(e) == e.timestamp.kind = "unparsable"

\* A step in which an entry is appended, and so the log is saved
Appends == control_log' # control_log

\* s is the end of t
IsSuffix(s, t) ==
    /\ Len(s) <= Len(t)
    /\ s = SubSeq(t, Len(t) - Len(s) + 1, Len(t))

Min(a, b) == IF a <= b THEN a ELSE b

\* C12: after a save the file holds at most MAX_HISTORY entries, and they are
\* the last MAX_HISTORY entries, in the order of appending, of the log as the
\* retention filter leaves it.
C12_HistoryCap ==
    [][Appends =>
        LET kept == FilteredLog(control_log', now)
        IN  /\ log_file'.exists
            /\ Len(log_file'.entries) <= MAX_HISTORY
            /\ Len(log_file'.entries) = Min(Len(kept), MAX_HISTORY)
            /\ IsSuffix(log_file'.entries, kept)]_vars

\* C12, witness: a log of MAX_HISTORY + 2 entries within retention has been
\* saved as its last MAX_HISTORY entries
C12_CutToLastEntries ==
    /\ Len(control_log) = MAX_HISTORY + 2
    /\ \A i \in 1..3 :
          /\ Parsed(control_log[i])
          /\ Retained(control_log[i], now - RETENTION_DAYS * 86400)
    /\ Len(log_file.entries) = MAX_HISTORY
    /\ log_file.entries[1] = control_log[3]
    /\ Last(log_file.entries) = Last(control_log)
    /\ Last(control_log).source = "mqtt"

----------------------------------------------------------------------------
(* The saved file while saves run side by side *)

\* C13: in every reachable state, whatever the steps of the saves under way
\* and wherever the process may end, LOG_FILE is absent or holds the whole
\* text of a single save, never a part of one or parts of two.
C13_DestinationComplete ==
    log_file.exists => Complete(log_file.chunks)

----------------------------------------------------------------------------
(* Entries without a null part *)

\* Neither part of any entry of s is None
NonNullEntries(s) ==
    \A i \in 1..Len(s) : s[i].sensor_data # None /\ s[i].control_command # None

\* A step of a dispatcher whose reading is the JSON null
NullReadingStep(d) ==
    /\ pc[d] \notin {"unstarted", "done"}
    /\ sensor_arg[d] = None
    /\ pc'[d] # pc[d]

\* C14: whatever the messages, a null sensor reading among them, every entry
\* of the log in memory and of the file has a sensor_data and a
\* control_command that are not null; and the dispatcher of a null reading,
\* when its workflow answers with a control output, changes neither the log
\* nor the recent successes.
C14_NonNullEntries ==
    [][/\ NonNullEntries(control_log')
       /\ NonNullEntries(log_file'.entries)
       /\ \A d \in Dispatchers :
             NullReadingStep(d) =>
                UNCHANGED <<control_log, log_file, recent_success_hashes>>]_vars

\* C14, witness: the workflow of a null reading has answered with a control
\* output, and nothing is recorded or cached
C14_NullReadingAnswered ==
    \E d \in Dispatchers :
        /\ pc[d] = "release"
        /\ sensor_arg[d] = None
        /\ Truthy(control_output[d])
        /\ control_log = <<>>
        /\ ~log_file.exists
        /\ recent_success_hashes = <<>>

\* C15: no two threads are at once inside an access of the same shared
\* structure; for the log in memory, no thread appends to it while the loop
\* of another thread's save is reading it.
C15_LogScanExclusive ==
    [][(/\ restarts' = restarts
        /\ \E th \in Threads : saving[th].pc = "scan" /\ saving'[th].pc = "scan")
          => control_log' = control_log]_vars

----------------------------------------------------------------------------
(* A save that fails *)

\* A step in which the save of thread th ends with an exception
SaveFailsStep(th) ==
    /\ restarts' = restarts
    /\ saving[th].pc # "idle"
    /\ saving'[th].pc = "idle"
    /\ saving[th].appended \in save_failed'

\* A step in which the save of thread th ends with os.replace done
SaveSucceedsStep(th) ==
    /\ saving[th].pc = "replace"
    /\ saving'[th].pc = "idle"
    /\ tmp_file.exists
    /\ ~tmp_file'.exists

\* LOG_FILE, after the step, holds the i-th entry of the log (in these runs
\* no entry is old enough or far enough from the end to be left out)
InFileAfter(i) ==
    /\ log_file'.exists
    /\ Retained(control_log[i], now - RETENTION_DAYS * 86400)
    /\ Len(log_file'.entries) >= i
    /\ log_file'.entries[i] = control_log[i]

\* When the save of an entry fails, the entry stays in the log in memory and
\* the thread goes on: a dispatcher to cache the hash and release the marker
FailureNotRaised ==
    [][\A th \in Threads :
          SaveFailsStep(th) =>
             /\ control_log' = control_log
             /\ saving[th].appended \in 1..Len(control_log)
             /\ th \in Dispatchers => pc'[th] = "cache"]_vars

\* C16: when the save of an appended entry fails, the entry stays in the log
\* in memory, the thread goes on as after a save that succeeds, and the
\* first later append whose save succeeds writes the entry to the file.
C16_PersistFailureRecovered ==
    [][\A th \in Threads :
          /\ SaveFailsStep(th) =>
                /\ control_log' = control_log
                /\ saving[th].appended \in 1..Len(control_log)
                /\ th \in Dispatchers => pc'[th] = "cache"
          /\ SaveSucceedsStep(th) =>
                \A i \in save_failed :
                    i < saving[th].appended => InFileAfter(i)]_vars

\* The same, when the later save has no other save beside it from its open
\* to its os.replace
RecoveredBySaveAlone ==
    [][\A th \in Threads :
          (/\ SaveSucceedsStep(th)
           /\ Complete(tmp_file.chunks)
           /\ tmp_file.chunks[1].of = saving[th].to_write) =>
                \A i \in save_failed :
                    i < saving[th].appended => InFileAfter(i)]_vars

----------------------------------------------------------------------------
(* What a restart forgets *)

\* The text of a file parses (a file of which only the entries are kept is
\* one that does)
Parses(file) == "chunks" \in DOMAIN file => Complete(file.chunks)

\* No workflow has succeeded in the threads of this process so far
NoSuccessYet == \A d \in Dispatchers : pc[d] \notin {"release", "done"}

\* Dispatcher d is the first of this process to reach the in-flight check
FirstAtGuard(d) ==
    /\ pc[d] = "start"
    /\ \A e \in Dispatchers \ {d} : pc[e] \in {"unstarted", "start"}

\* C17: after a restart the two caches are empty and the log in memory is the
\* content of LOG_FILE, empty when the file is absent or does not parse; so
\* no hash a read timeout left in flight before the restart is found by the
\* in-flight check, the first dispatch after the restart makes its call, and
\* a control message is not taken for a recent success until a workflow has
\* succeeded again.
C17_RestartForgets ==
    [][/\ restarts' # restarts =>
             /\ recent_success_hashes' = <<>>
             /\ inflight_workflows' = <<>>
             /\ control_log' = IF log_file'.exists /\ Parses(log_file')
                                 THEN log_file'.entries ELSE <<>>
             /\ \A h \in DOMAIN timeout_held' :
                   h \notin DOMAIN SweepInflight(inflight_workflows', now')
       /\ \A d \in Dispatchers :
             (restarts >= 1 /\ restarts' = restarts /\ FirstAtGuard(d) /\ pc'[d] # "start")
                => pc'[d] = "requesting"
       /\ (restarts >= 1 /\ NoSuccessYet) =>
             \A text \in RestartControlTexts :
                ~RecentLive(recent_success_hashes,
                            MakeRecordHash(PyOr(latest_sensor_data, EmptyDict),
                                           DecodePayload(text)),
                            now)]_vars

\* C17, witness: after a restart, a reading whose marker a read timeout had
\* left less than the TTL ago is in its call again, and a control message
\* that matches a workflow record of the file, written within the duplicate
\* window, is recorded after it
C17_PassedAndRecordedAfterRestart ==
    /\ restarts = 1
    /\ \E d \in Dispatchers :
          /\ pc[d] = "requesting"
          /\ \A e \in Dispatchers \ {d} : pc[e] = "unstarted"
          /\ RecordHash(d) \in DOMAIN timeout_held
          /\ now - timeout_held[RecordHash(d)] < DIFY_INFLIGHT_TTL
    /\ \E i \in 1..Len(control_log) :
          /\ control_log[i].source = "workflow"
          /\ Last(control_log).source = "mqtt"
          /\ Last(control_log).sensor_data = control_log[i].sensor_data
          /\ Last(control_log).control_command = control_log[i].control_command
          /\ WrittenAt(Last(control_log)) - WrittenAt(control_log[i])
                <= DUPLICATE_WINDOW_SECONDS
          /\ control_log[i].sensor_data = S_t30_h5

\* C17, the unparsable file: the process has started again on a LOG_FILE
\* that does not parse, with an empty log
RestartedOnTornFile ==
    /\ restarts = 1
    /\ log_file.exists
    /\ ~Parses(log_file)
    /\ control_log = <<>>

----------------------------------------------------------------------------
(* The fingerprint *)

\* C18: two calls of the same caller on arguments that hold the same keys
\* and values at every level, in whatever order, at whatever time, get the
\* same fingerprint.
C18_FingerprintDeterministic ==
    [][(/\ hash_out' # hash_out
        /\ hash_out.caller = hash_out'.caller
        /\ SameContent(hash_out.of.a, hash_in.a)
        /\ SameContent(hash_out.of.b, hash_in.b))
          => hash_out'.result = hash_out.result]_vars

\* C18, witness: the same content in another order, of the outer keys and of
\* the keys of a nested mapping, has been given a fingerprint a second time,
\* later
C18_ReorderedAndCalledAgain ==
    /\ hash_out.caller = "commit"
    /\ hash_out.caller_before = "commit"
    /\ hash_out.before.a = Obj(<< <<"h", Num("30")>>, <<"t", XY>> >>)
    /\ hash_out.of.a = Obj(<< <<"t", YX>>, <<"h", Num("30")>> >>)
    /\ hash_out.of.b = Obj(<< <<"valve", YX>> >>)
    /\ hash_out.before.b = Obj(<< <<"valve", XY>> >>)
    /\ hash_out.result = MakeRecordHash(hash_out.before.a, hash_out.before.b)
    /\ hash_out.result # Raised
    /\ now > StartTime

\* The arguments the caller of the call at hand gives _make_record_hash
GivenSensor(call) ==
    IF call.caller = "control" THEN PyOr(call.of.a, EmptyDict) ELSE call.of.a
GivenControl(call) ==
    IF call.caller = "guard" THEN EmptyDict ELSE call.of.b

\* The fingerprints of arguments a and b: of both, and of b alone
FingerprintOfBoth(a, b) ==
    [control |-> JsonDumpsSorted(b), sensor |-> JsonDumpsSorted(a)]
FingerprintOfControl(b) == [control_alone |-> JsonDumpsSorted(b)]

\* C19: when the serialisation with a fails, the caller gets the fingerprint
\* of b alone; when b cannot be serialised either, it gets an exception; and
\* a caller that goes on does so with a fingerprint of its arguments, never
\* with another value.
C19_FailureSurfaced ==
    [][hash_out' # hash_out =>
         LET a == GivenSensor(hash_out')
             b == GivenControl(hash_out')
         IN  /\ (~Serialisable(a) /\ Serialisable(b)) =>
                    hash_out'.result = FingerprintOfControl(b)
             /\ ~Serialisable(b) =>
                    hash_out'.result = Raised /\ ~hash_out'.continues
             /\ hash_out'.continues =>
                    hash_out'.result \in {FingerprintOfBoth(a, b), FingerprintOfControl(b)}]_vars

\* C19, witness: record_combined has been given a reading json.dumps cannot
\* serialise, and goes on with the fingerprint of the control data alone
C19_FellBackToControl ==
    /\ hash_out.caller = "commit"
    /\ hash_out.of.a = Obj(<< <<"h", Bytes>>, <<"t", XY>> >>)
    /\ hash_out.of.b = C_valve_open
    /\ hash_out.result = [control_alone |-> C_valve_open]
    /\ hash_out.continues

\* on_message has been given a control payload json.dumps cannot serialise,
\* and is left by the exception
RaisedToCaller ==
    /\ hash_out.caller = "control"
    /\ hash_out.of.b = Obj(<< <<"valve", Bytes>> >>)
    /\ hash_out.result = Raised
    /\ ~hash_out.continues

----------------------------------------------------------------------------
(* The life of an entry *)

\* The step appends one entry and leaves the others as they are
AppendsOne ==
    /\ Len(control_log') = Len(control_log) + 1
    /\ SubSeq(control_log', 1, Len(control_log)) = control_log

\* The step is a workflow success of some dispatcher, recorded
RecordsSuccess ==
    \E d \in Dispatchers :
        /\ pc[d] = "requesting"
        /\ pc'[d] = "cache"
        /\ Truthy(control_output'[d])
        /\ Last(control_log') = WorkflowEntry(now, sensor_arg[d], control_output'[d])

\* The step is a control message, not empty and not a recent success, recorded
RecordsControl ==
    LET e == Last(control_log') IN
    /\ e.source = "mqtt"
    /\ ~IsEmptyControl(e.control_command)
    /\ ~RecentLive(recent_success_hashes,
                   MakeRecordHash(e.sensor_data, e.control_command), now)
    /\ UNCHANGED pc

\* The log in memory changes only by the append of one entry, on a workflow
\* success or on a control message that is neither empty nor a duplicate
LogGainsOnlyByRecord ==
    [][control_log' # control_log =>
          AppendsOne /\ (RecordsSuccess \/ RecordsControl)]_vars

\* e is not older than 7 days at time t by its timestamp, if it has one that
\* parses
WithinRetention(e, t) ==
    ~(Parsed(e) /\ t - FromIsoFormatUtc(e.timestamp) > RETENTION_DAYS * 86400)

\* C20: the log gains an entry only on a workflow success or on a control
\* message that is neither empty nor a duplicate; the entries it has are not
\* modified; and a save leaves out of the file only the entries older than 7
\* days and those before the last MAX_HISTORY, so that an entry within both,
\* one without a timestamp included, stays.
C20_EntryLifecycle ==
    [][control_log' # control_log =>
          /\ AppendsOne
          /\ RecordsSuccess \/ RecordsControl
          /\ LET within == SelectSeq(control_log', LAMBDA e : WithinRetention(e, now))
             IN  /\ Len(log_file'.entries) = Min(Len(within), MAX_HISTORY)
                 /\ IsSuffix(log_file'.entries, within)]_vars

\* The same of the file, for a log whose entries all have a timestamp
TimestampedLeaveByRetentionOrCap ==
    [][(/\ control_log' # control_log
        /\ \A i \in 1..Len(control_log') : control_log'[i].timestamp.kind # "absent") =>
          LET within == SelectSeq(control_log', LAMBDA e : WithinRetention(e, now))
          IN  /\ Len(log_file'.entries) = Min(Len(within), MAX_HISTORY)
              /\ IsSuffix(log_file'.entries, within)]_vars

----------------------------------------------------------------------------
(* The latest sensor reading *)

\* {"raw": text}
RawOf(text) == Obj(<< <<"raw", Str(text)>> >>)

\* The dispatcher threads a step starts
StartedNow == Started' \ Started

\* C21: a sensor event puts its decoded payload into the latest-reading slot,
\* a text that is not JSON as {"raw": text}, and starts exactly one dispatcher
\* thread, with that payload as its argument; the slot changes in no step but
\* a sensor event, so it holds the payload of the last one, and a control
\* event leaves it as it is.
C21_SensorEventHandling ==
    [][ /\ \A text \in RawSensorTexts :
               SensorMessage(text) =>
                   /\ latest_sensor_data' =
                          (IF IsJson(text) THEN JsonLoads(text) ELSE RawOf(text))
                   /\ Cardinality(StartedNow) = 1
                   /\ \A d \in StartedNow :
                          /\ pc'[d] = "start"
                          /\ sensor_arg'[d] = latest_sensor_data'
                          /\ started_by'[d] = "sensor"
        /\ latest_sensor_data' # latest_sensor_data =>
               \E text \in RawSensorTexts : SensorMessage(text)
        /\ \A text \in ControlTexts :
               ControlEvent(text) => latest_sensor_data' = latest_sensor_data
      ]_vars

\* C21: the slot holds {"raw": " "}, the payload of the second sensor event,
\* whose dispatcher waits with it, after a first event with another payload;
\* and a control event was recorded with it since.
C21_RawReadingReplacedTheSlot ==
    /\ latest_sensor_data = RawOf(T_space)
    /\ \E d1, d2 \in Dispatchers :
           /\ d1 < d2
           /\ sensor_arg[d1] = S_t30_h5
           /\ sensor_arg[d2] = RawOf(T_space)
           /\ pc[d2] = "start"
    /\ Len(control_log) = 1
    /\ control_log[1].source = "mqtt"
    /\ control_log[1].sensor_data = RawOf(T_space)

----------------------------------------------------------------------------
(* The TTL boundary *)

\* The age of the entry of h in cache f is at most ttl
LiveWithin(f, h, t, ttl) == h \in DOMAIN f /\ t - f[h] <= ttl

\* C22: an entry put in a cache at time t counts as present at time now
\* exactly when now - t <= TTL, with 120 s for the recent-success cache and
\* 300 s for the in-flight cache: a control event that is not empty appends
\* no record exactly when its hash is in the recent-success cache with an age
\* of at most 120 s, and a dispatch ends at its guard without a call exactly
\* when its hash is in the in-flight cache with an age of at most 300 s; an
\* older entry suppresses neither, swept or not.
C22_TtlBoundary ==
    [][ /\ \A text \in StoreControlTexts :
               ControlMessage(text) =>
                   IF LiveWithin(recent_success_hashes, ControlHash(text), now, 120)
                   THEN control_log' = control_log
                   ELSE Len(control_log') = Len(control_log) + 1
        /\ \A d \in Dispatchers :
               EntryGuard(d) =>
                   IF LiveWithin(inflight_workflows, RecordHash(d), now, 300)
                   THEN pc'[d] = "done" /\ call_arrivals' = call_arrivals
                   ELSE pc'[d] = "requesting" /\ calls'[d] = 1
      ]_vars

\* C22, the case: a control event was recorded 180 s after its hash was put in
\* the recent-success cache, where the entry still is, no sweep having run
\* since; the event has just been handled.
C22_ExpiredRecentEntryRecorded ==
    \E i \in 1..Len(control_log) :
        LET h == MakeRecordHash(control_log[i].sensor_data,
                                control_log[i].control_command)
        IN  /\ control_log[i].source = "mqtt"
            /\ h \in DOMAIN recent_success_hashes
            /\ WrittenAt(control_log[i]) - recent_success_hashes[h] = 180
            /\ now = WrittenAt(control_log[i])

----------------------------------------------------------------------------
(* The marker of a dispatch under way *)

\* The dispatcher is between its guard and its end
UnderWay(d) == pc[d] \in {"requesting", "sleeping", "cache", "release"}

\* C23: from its guard to its end, through every request, every empty output
\* and every sleep, the hash of a dispatch is in the in-flight set (so that a
\* dispatch of the same reading that arrives meanwhile makes no call).
C23_MarkerHeldAcrossRetries ==
    \A d \in Dispatchers : UnderWay(d) => RecordHash(d) \in DOMAIN inflight_workflows

\* The steps of a dispatch itself between two requests leave the in-flight set
\* as it is; the sleep before the k-th repeated request is min(2^k, 30) s, and
\* the request is repeated while k, the count of repeated requests, is at
\* most DIFY_EMPTY_RETRIES.
OwnRetriesKeepMarker ==
    [][\A d \in Dispatchers :
        /\ (\E result \in Bodies : EmptyOutput(d, result)) =>
               IF calls[d] <= 3
               THEN /\ pc'[d] = "sleeping"
                    /\ backoff'[d] = Min(Pow2(calls[d]), 30)
                    /\ empty_attempt'[d] = calls[d]
                    /\ inflight_workflows' = inflight_workflows
               ELSE pc'[d] = "done"
        /\ Retry(d) => inflight_workflows' = inflight_workflows
      ]_vars

----------------------------------------------------------------------------
(* One dispatch under way per hash *)

\* Of the dispatches of one hash, at most one is between its guard and its end
OneUnderWayPerHash ==
    \A d, e \in Dispatchers :
        (d # e /\ UnderWay(d) /\ UnderWay(e)) => RecordHash(d) # RecordHash(e)

\* The dispatch d ends in this step
Ends(d) == UnderWay(d) /\ pc'[d] = "done"

\* A dispatch that ends takes out of the in-flight set no marker but the one
\* it put in
OwnMarkerRemoved ==
    \A d \in Dispatchers :
        (/\ Ends(d)
         /\ RecordHash(d) \in DOMAIN inflight_workflows
         /\ RecordHash(d) \notin DOMAIN inflight_workflows')
            => inflight_workflows[RecordHash(d)] = inserted_at[d]

\* C24: at any time at most one dispatch of a sensor hash is between its guard
\* and its end, and a dispatch that removes a marker at its end removes the
\* marker it inserted, never the one of a later dispatch that passed the guard
\* after the first marker had expired with the first dispatch still under way.
C24_OneOutstandingOwnMarker ==
    []OneUnderWayPerHash /\ [][OwnMarkerRemoved]_vars

\* C24, its second part alone
OnlyOwnMarkerRemoved == [][OwnMarkerRemoved]_vars

----------------------------------------------------------------------------
(* A suppressed dispatch *)

\* The entries of the in-flight set that are at most the TTL old, as they are
UnexpiredInflight ==
    [k \in {x \in DOMAIN inflight_workflows : now - inflight_workflows[x] <= 300}
        |-> inflight_workflows[k]]

\* C25: a dispatch whose guard finds its hash live in the in-flight set makes
\* no request and ends; the log, the file, the recent-success cache and the
\* latest reading stay as they are; of the in-flight set the entries older
\* than the TTL are removed and no other, and the live marker keeps its time.
C25_SuppressedDispatchFrame ==
    [][\A d \in Dispatchers :
        (EntryGuard(d) /\ LiveWithin(inflight_workflows, RecordHash(d), now, 300)) =>
            /\ pc'[d] = "done"
            /\ calls'[d] = 0
            /\ call_arrivals' = call_arrivals
            /\ control_log' = control_log
            /\ log_file' = log_file
            /\ recent_success_hashes' = recent_success_hashes
            /\ latest_sensor_data' = latest_sensor_data
            /\ inflight_workflows' = UnexpiredInflight
            /\ inflight_workflows'[RecordHash(d)] = inflight_workflows[RecordHash(d)]
            /\ now' = now
      ]_vars

\* C25, the case: read timeouts left a marker of {"t":30,"h":5} at 600 and a
\* marker of {} at 900; at 1050 a dispatch of {} was suppressed by the second,
\* which is in the set with its time, and its guard removed the first: no
\* other dispatch passed a guard after 900, and none of the first hash ended.
C25_SuppressedGuardSweptExpired ==
    LET a == MakeRecordHash(S_t30_h5, EmptyDict)
        b == MakeRecordHash(EmptyDict, EmptyDict)
    IN  /\ now = 1050
        /\ DOMAIN timeout_held = {a, b}
        /\ timeout_held[a] = 600
        /\ timeout_held[b] = 900
        /\ DOMAIN call_arrivals = {a, b}
        /\ Len(call_arrivals[a]) = 1
        /\ Len(call_arrivals[b]) = 1
        /\ DOMAIN inflight_workflows = {b}
        /\ inflight_workflows[b] = 900
        /\ \A d \in Dispatchers : pc[d] \in {"unstarted", "done"}
        /\ \E d \in Dispatchers : pc[d] = "done"

----------------------------------------------------------------------------
(* The end of a dispatch *)

\* Every dispatch that passed its guard ends
Terminates == \A d \in Dispatchers : (pc[d] = "requesting") ~> (pc[d] = "done")

\* A dispatch makes at most DIFY_EMPTY_RETRIES + 1 requests
RequestsBounded == \A d \in Dispatchers : calls[d] <= 3 + 1

\* After the step, the in-flight set holds the marker that d put in
OwnMarkerHeldAfter(d) ==
    /\ RecordHash(d) \in DOMAIN inflight_workflows'
    /\ inflight_workflows'[RecordHash(d)] = inserted_at[d]

\* When a dispatch ends, the marker it put in is in the in-flight set exactly
\* when its last request ended in a read timeout
MarkerLeftIffTimeout ==
    \A d \in Dispatchers : Ends(d) => (OwnMarkerHeldAfter(d) <=> ReadTimeout(d))

\* C26: with every thread running on and every request answered, failing or
\* timing out, every dispatch that passed its guard ends, after at most
\* DIFY_EMPTY_RETRIES + 1 requests whatever the responses; and when it ends,
\* its own marker is in the in-flight set exactly when its last request ended
\* in a read timeout.
C26_DispatchTermination ==
    Terminates /\ []RequestsBounded /\ [][MarkerLeftIffTimeout]_vars

\* C26, its first part alone
TerminatesWithinBound == Terminates /\ []RequestsBounded

\* C26, its second part for the marker of the hash, whoever put it in
HashLeftIffTimeout ==
    [][\A d \in Dispatchers :
        Ends(d) => (RecordHash(d) \in DOMAIN inflight_workflows' <=>
                        (ReadTimeout(d) /\ RecordHash(d) \in DOMAIN inflight_workflows))
      ]_vars

----------------------------------------------------------------------------
(* The file and the log in memory *)

\* No thread is in save_log_file
NoSaveInProgress == \A th \in Threads : saving[th].pc = "idle"

\* C27: when no save is in progress and the last save that ended succeeded
\* (every save has ended, none of them failed without a later one succeeding,
\* and the process has run since its first start), the file holds the entries
\* of control_log that pass the retention filter, cut to the last MAX_HISTORY,
\* in the order of their appends: the entries of two threads that appended at
\* the same time are both in the file once both have returned.
C27_FileFollowsMemory ==
    (/\ NoSaveInProgress
     /\ save_failed = {}
     /\ restarts = 0
     /\ control_log # <<>>)
        => /\ log_file.exists
           /\ log_file.entries = ToWrite(control_log, now)

\* C27, when every save wrote a temporary file of its own and put it in place
CompleteFileFollowsMemory ==
    (/\ NoSaveInProgress
     /\ save_failed = {}
     /\ restarts = 0
     /\ control_log # <<>>
     /\ log_file.exists
     /\ "chunks" \in DOMAIN log_file
     /\ Complete(log_file.chunks)
     /\ files_created = Len(control_log)
     /\ ~tmp_file.exists)
        => log_file.entries = ToWrite(control_log, now)

====
